---- MODULE Spec2Model ----
(***************************************************************************)
(* A model of app.py, the e-mail classifier: the audit logger              *)
(* (registrar_log), the keyword classifier (classificar_fallback), the     *)
(* remote adapter (classificar_com_openai), the orchestrator               *)
(* (classificar_email), the text extractor (ler_arquivo) and the request   *)
(* handler (index).                                                        *)
(*                                                                         *)
(* Texts (e-mail text, replies, response bodies, file names, the audit     *)
(* file) are sequences of characters, one string per character.  A Python  *)
(* value is a record tagged by its type: a str, None, or the 2-tuple the   *)
(* classifiers return.  A function of the program is an operator from its  *)
(* arguments and the world w it runs in to an outcome [exc, ret, w]: exc   *)
(* says that an exception left the function, ret is the value returned     *)
(* and w the world afterwards.                                             *)
(***************************************************************************)
EXTENDS Integers, Sequences, FiniteSets, TLC

-----------------------------------------------------------------------------
(* Python values *)

PyNone == [t |-> "none"]

PyStr(s) == [t |-> "str", s |-> s]

PyTuple(categoria, resposta) == [t |-> "tuple", cat |-> categoria, reply |-> resposta]

\* bool(v) of a str or None
Truthy(v) == v.t = "str" /\ v.s # <<>>

\* v or ""
OrEmpty(v) == IF Truthy(v) THEN v.s ELSE <<>>

\* Outcomes of a function
Return(v, w) == [exc |-> FALSE, ret |-> v, w |-> w]

Raise(w) == [exc |-> TRUE, ret |-> PyNone, w |-> w]

-----------------------------------------------------------------------------
(* str methods *)

UpperChars ==
    <<"A","B","C","D","E","F","G","H","I","J","K","L","M","N","O","P","Q","R","S","T","U","V",
      "W","X","Y","Z","Á","Â","Ã","À","É","Ê","Í","Ó","Ô","Õ","Ú","Ç">>

LowerChars ==
    <<"a","b","c","d","e","f","g","h","i","j","k","l","m","n","o","p","q","r","s","t","u","v",
      "w","x","y","z","á","â","ã","à","é","ê","í","ó","ô","õ","ú","ç">>

\* str.lower() of one character
LowerChar(c) ==
    IF \E i \in 1..Len(UpperChars) : UpperChars[i] = c
    THEN LowerChars[CHOOSE i \in 1..Len(UpperChars) : UpperChars[i] = c]
    ELSE c

\* s.lower()
Lower(s) == [i \in 1..Len(s) |-> LowerChar(s[i])]

IsSpace(c) == c \in {" ", "\n", "\t", "\r"}

RECURSIVE LStrip(_)
LStrip(s) == IF s # <<>> /\ IsSpace(Head(s)) THEN LStrip(Tail(s)) ELSE s

RECURSIVE RStrip(_)
RStrip(s) ==
    IF s # <<>> /\ IsSpace(s[Len(s)]) THEN RStrip(SubSeq(s, 1, Len(s) - 1)) ELSE s

\* s.strip()
Strip(s) == RStrip(LStrip(s))

\* p in t
Contains(t, p) ==
    \E i \in 0..(Len(t) - Len(p)) : SubSeq(t, i + 1, i + Len(p)) = p

\* s.replace(a, b) for single characters a and b
Replace(s, a, b) == [i \in 1..Len(s) |-> IF s[i] = a THEN b ELSE s[i]]

\* s[:n]
Slice(s, n) == SubSeq(s, 1, IF Len(s) < n THEN Len(s) ELSE n)

-----------------------------------------------------------------------------
(* The audit logger *)

SnippetLen == 200

\* datetime.datetime.now().isoformat() at clock reading n
IsoFormat(n) == <<"T", ToString(n)>>

\* f"{categoria}": the text a value is written as
Format(v) == IF v.t = "str" THEN v.s ELSE <<"N", "o", "n", "e">>

\* snippet = (texto or "")[:200].replace("\n", " ")
Snippet(texto) == Replace(Slice(OrEmpty(texto), SnippetLen), "\n", " ")

\* f"{ts} | {categoria} | {snippet}\n"
FormatEntry(ts, categoria, snippet) ==
    ts \o <<" ", "|", " ">> \o Format(categoria) \o <<" ", "|", " ">> \o snippet \o <<"\n">>

\* The body of the try: open the file for append, write one entry, close it.
\* The open raises when the file cannot be written.
registrar_log_try(texto, categoria, w) ==
    IF ~w.writable
    THEN Raise(w)
    ELSE Return(PyNone,
                [w EXCEPT !.log = @ \o FormatEntry(w.ts, categoria, Snippet(texto))])

\* registrar_log without its except clause: the exception leaves it.
registrar_log_noexcept(r) == r

\* except Exception as e: logger.warning(...), for the outcome r of the try
registrar_log_except(r) ==
    IF r.exc THEN Return(PyNone, [r.w EXCEPT !.warnings = @ + 1]) ELSE r

registrar_log(texto, categoria, w) ==
    registrar_log_except(
        registrar_log_try(texto, categoria, [w EXCEPT !.logCalls = @ + 1]))

-----------------------------------------------------------------------------
(* The keyword classifier *)

Produtivo ==
    <<"P","r","o","d","u","t","i","v","o">>

Improdutivo ==
    <<"I","m","p","r","o","d","u","t","i","v","o">>

palavras_produtivas ==
    << <<"s","t","a","t","u","s">>,
       <<"e","r","r","o">>,
       <<"p","r","o","b","l","e","m","a">>,
       <<"a","j","u","d","a">>,
       <<"s","o","l","i","c","i","t","a","ç","ã","o">>,
       <<"s","o","l","i","c","i","t","a","c","a","o">>,
       <<"a","n","e","x","o">>,
       <<"r","e","l","a","t","ó","r","i","o">>,
       <<"r","e","l","a","t","o","r","i","o">>,
       <<"s","u","p","o","r","t","e">>,
       <<"t","i","c","k","e","t">>,
       <<"f","a","l","h","a">>,
       <<"i","n","c","i","d","e","n","t","e">>,
       <<"r","e","u","n","i","ã","o">>,
       <<"r","e","u","n","i","a","o">>,
       <<"a","g","e","n","d","a","r">>,
       <<"u","r","g","e","n","t","e">>,
       <<"p","e","n","d","e","n","t","e">> >>

palavras_improdutivas ==
    << <<"o","b","r","i","g","a","d","o">>,
       <<"o","b","r","i","g","a","d","a">>,
       <<"f","e","l","i","z"," ","n","a","t","a","l">>,
       <<"b","o","a","s"," ","f","e","s","t","a","s">>,
       <<"p","a","r","a","b","é","n","s">>,
       <<"p","a","r","a","b","e","n","s">>,
       <<"a","b","r","a","ç","o","s">> >>

RespostaVazio ==
    <<"O","b","r","i","g","a","d","o"," ","p","e","l","a"," ","m","e","n","s","a","g","e","m",
      "!">>

RespostaProdutivo ==
    <<"O","l","á",","," ","r","e","c","e","b","e","m","o","s"," ","s","e","u"," ","e","-","m",
      "a","i","l","."," ","A","g","r","a","d","e","c","e","m","o","s"," ","o"," ","c","o","n",
      "t","a","t","o"," ","e"," ","i","r","e","m","o","s"," ","v","e","r","i","f","i","c","a",
      "r"," ","s","u","a"," ","s","o","l","i","c","i","t","a","ç","ã","o","."," ","R","e","t",
      "o","r","n","a","r","e","m","o","s"," ","n","o"," ","p","r","a","z","o"," ","d","e"," ",
      "u","m"," ","d","i","a"," ","ú","t","i","l","."," ","S","e"," ","p","o","s","s","í","v",
      "e","l",","," ","e","n","v","i","e"," ","m","a","i","s"," ","d","e","t","a","l","h","e",
      "s"," ","o","u"," ","a","n","e","x","e"," ","a","r","q","u","i","v","o","s"," ","r","e",
      "l","e","v","a","n","t","e","s",".">>

RespostaCortesia ==
    <<"A","g","r","a","d","e","ç","o"," ","a"," ","m","e","n","s","a","g","e","m"," ","e"," ",
      "o"," ","c","o","n","t","a","t","o","!">>

RespostaPadrao ==
    <<"A","g","r","a","d","e","ç","o"," ","o"," ","c","o","n","t","a","t","o","!">>

\* for p in lista: if p in t: ...  The index of the first keyword found, or 0.
RECURSIVE FirstMatch(_, _, _)
FirstMatch(lista, t, i) ==
    IF i > Len(lista) THEN 0
    ELSE IF Contains(t, lista[i]) THEN i
    ELSE FirstMatch(lista, t, i + 1)

\* return v, after a call whose outcome is r
ReturnAfter(r, v) == IF r.exc THEN r ELSE Return(v, r.w)

\* registrar_log(texto, categoria); return categoria, resposta
LogAndReturn(texto, categoria, resposta, w) ==
    ReturnAfter(registrar_log(texto, categoria, w), PyTuple(categoria, resposta))

\* classificar_fallback with the courtesy list scanned before the productive
\* one.
classificar_fallback_CourtesyFirst(texto, w) ==
    IF ~Truthy(texto) \/ Strip(texto.s) = <<>>
    THEN LogAndReturn(PyStr(OrEmpty(texto)), PyStr(Improdutivo), PyStr(RespostaVazio), w)
    ELSE IF FirstMatch(palavras_improdutivas, Lower(texto.s), 1) # 0
    THEN LogAndReturn(texto, PyStr(Improdutivo), PyStr(RespostaCortesia), w)
    ELSE IF FirstMatch(palavras_produtivas, Lower(texto.s), 1) # 0
    THEN LogAndReturn(texto, PyStr(Produtivo), PyStr(RespostaProdutivo), w)
    ELSE LogAndReturn(texto, PyStr(Improdutivo), PyStr(RespostaPadrao), w)

classificar_fallback(texto, w) ==
    IF ~Truthy(texto) \/ Strip(texto.s) = <<>>
    THEN LogAndReturn(PyStr(OrEmpty(texto)), PyStr(Improdutivo), PyStr(RespostaVazio), w)
    ELSE LET t == Lower(texto.s)
         IN  IF FirstMatch(palavras_produtivas, t, 1) # 0
             THEN LogAndReturn(texto, PyStr(Produtivo), PyStr(RespostaProdutivo), w)
             ELSE IF FirstMatch(palavras_improdutivas, t, 1) # 0
             THEN LogAndReturn(texto, PyStr(Improdutivo), PyStr(RespostaCortesia), w)
             ELSE LogAndReturn(texto, PyStr(Improdutivo), PyStr(RespostaPadrao), w)

-----------------------------------------------------------------------------
(* The remote adapter *)

At(s, i) == IF i \in 1..Len(s) THEN s[i] ELSE ""

\* The search with a lazy pattern, r"\{.*?\}": from the first "{" to the first
\* "}" after it.
SearchBraces_NonGreedy(conteudo) ==
    LET opens  == {i \in 1..Len(conteudo) : conteudo[i] = "{"}
        closes == {j \in 1..Len(conteudo) : conteudo[j] = "}"}
    IN  IF opens = {} THEN PyNone
        ELSE LET i == CHOOSE a \in opens : \A b \in opens : a <= b
                 after == {j \in closes : j > i}
             IN  IF after = {} THEN PyNone
                 ELSE PyStr(SubSeq(conteudo, i, CHOOSE a \in after : \A b \in after : a <= b))

\* m = re.search(r"\{.*\}", conteudo, re.DOTALL); m.group(0), or None:
\* greedy, from the first "{" to the last "}" after it.
SearchBraces(conteudo) ==
    LET opens  == {i \in 1..Len(conteudo) : conteudo[i] = "{"}
        closes == {j \in 1..Len(conteudo) : conteudo[j] = "}"}
    IN  IF opens = {} THEN PyNone
        ELSE LET i == CHOOSE a \in opens : \A b \in opens : a <= b
                 after == {j \in closes : j > i}
             IN  IF after = {} THEN PyNone
                 ELSE PyStr(SubSeq(conteudo, i, CHOOSE a \in after : \A b \in after : a >= b))

(* json.loads, on the JSON this model's responses use: an object whose      *)
(* members have string keys and values that are strings (with the escapes   *)
(* \" \\ \/ \n \t \r) or null.  A dict is the sequence of its <<key, value>>*)
(* pairs in the order parsed.                                               *)
JsonFail == [ok |-> FALSE, pos |-> 0, val |-> PyNone]

JsonOk(pos, val) == [ok |-> TRUE, pos |-> pos, val |-> val]

RECURSIVE JsonSkipWs(_, _)
JsonSkipWs(s, i) == IF IsSpace(At(s, i)) THEN JsonSkipWs(s, i + 1) ELSE i

JsonUnescape(c) ==
    CASE c = "n" -> "\n"
      [] c = "t" -> "\t"
      [] c = "r" -> "\r"
      [] OTHER   -> c

\* The characters of a string from position i, after its opening quote.
RECURSIVE JsonString(_, _, _)
JsonString(s, i, acc) ==
    LET c == At(s, i)
    IN  IF c = "" \/ c \in {"\n", "\t", "\r"} THEN JsonFail
        ELSE IF c = "\"" THEN JsonOk(i + 1, PyStr(acc))
        ELSE IF c = "\\"
        THEN IF At(s, i + 1) \in {"\"", "\\", "/", "n", "t", "r"}
             THEN JsonString(s, i + 2, Append(acc, JsonUnescape(At(s, i + 1))))
             ELSE JsonFail
        ELSE JsonString(s, i + 1, Append(acc, c))

JsonValue(s, i) ==
    IF At(s, i) = "\"" THEN JsonString(s, i + 1, <<>>)
    ELSE IF i + 3 <= Len(s) /\ SubSeq(s, i, i + 3) = <<"n", "u", "l", "l">>
    THEN JsonOk(i + 4, PyNone)
    ELSE JsonFail

\* The members of an object from position i, up to and including its "}":
\* a key, ":", a value, and then "," and more members, or "}".
RECURSIVE JsonMembers(_, _, _)

JsonAfterValue(s, e, more) ==
    IF At(s, e) = "," THEN JsonMembers(s, JsonSkipWs(s, e + 1), more)
    ELSE IF At(s, e) = "}" THEN JsonOk(e + 1, more)
    ELSE JsonFail

JsonMember(s, key, v, acc) ==
    IF ~v.ok THEN JsonFail
    ELSE JsonAfterValue(s, JsonSkipWs(s, v.pos), Append(acc, <<key, v.val>>))

JsonAfterKey(s, k, acc) ==
    IF ~k.ok \/ At(s, JsonSkipWs(s, k.pos)) # ":" THEN JsonFail
    ELSE JsonMember(s, k.val.s, JsonValue(s, JsonSkipWs(s, JsonSkipWs(s, k.pos) + 1)), acc)

JsonMembers(s, i, acc) ==
    IF At(s, i) # "\"" THEN JsonFail
    ELSE JsonAfterKey(s, JsonString(s, i + 1, <<>>), acc)

\* An object whose "{" is at position i
JsonObject(s, i) ==
    IF At(s, i) # "{" THEN JsonFail
    ELSE IF At(s, JsonSkipWs(s, i + 1)) = "}" THEN JsonOk(JsonSkipWs(s, i + 1) + 1, <<>>)
    ELSE JsonMembers(s, JsonSkipWs(s, i + 1), <<>>)

\* Nothing but white space may follow the object o parsed from s.
JsonEnd(s, o, w) ==
    IF o.ok /\ JsonSkipWs(s, o.pos) = Len(s) + 1 THEN Return(o.val, w) ELSE Raise(w)

\* json.loads(s): the dict, or an exception (JSONDecodeError)
json_loads(s, w) == JsonEnd(s, JsonObject(s, JsonSkipWs(s, 1)), w)

\* d.get(key, default); of two members with one key the later one counts
DictGet(d, key, default) ==
    LET at == {i \in 1..Len(d) : d[i][1] = key}
    IN  IF at = {} THEN default
        ELSE d[CHOOSE a \in at : \A b \in at : a >= b][2]

KeyCategory == <<"c", "a", "t", "e", "g", "o", "r", "y">>

KeyReply == <<"r", "e", "p", "l", "y">>

\* openai.ChatCompletion.create(...) and resp["choices"][0]["message"]["content"]:
\* the call raises, or gives a response whose content is a str or None
ChatCompletion_create(w) ==
    IF w.remote.kind = "raise"
    THEN Raise([w EXCEPT !.remoteCalls = @ + 1])
    ELSE Return(w.remote.content, [w EXCEPT !.remoteCalls = @ + 1])

\* category = parsed.get("category", "Produtivo"); reply = parsed.get("reply", "")
\* registrar_log(texto, category); return category, reply
openai_parsed(texto, parsed) ==
    IF parsed.exc THEN parsed
    ELSE LogAndReturn(texto,
                      DictGet(parsed.ret, KeyCategory, PyStr(Produtivo)),
                      DictGet(parsed.ret, KeyReply, PyStr(<<>>)),
                      parsed.w)

\* if m: parsed = json.loads(m.group(0)) ...
\* else: registrar_log(texto, "Produtivo"); return "Produtivo", conteudo
openai_match(texto, conteudo, m, w) ==
    IF m # PyNone
    THEN openai_parsed(texto, json_loads(m.s, w))
    ELSE LogAndReturn(texto, PyStr(Produtivo), conteudo, w)

\* conteudo = resp[...]; m = re.search(...): re.search raises TypeError on a
\* content that is None
openai_content(texto, resp) ==
    IF resp.exc THEN resp
    ELSE IF resp.ret.t # "str" THEN Raise(resp.w)
    ELSE openai_match(texto, resp.ret, SearchBraces(resp.ret.s), resp.w)

\* The body of the try
openai_try(texto, w) == openai_content(texto, ChatCompletion_create(w))

\* The except clause returning an empty result in place of None.
openai_except_EmptyReply(r) ==
    IF r.exc THEN Return(PyTuple(PyStr(Produtivo), PyStr(<<>>)), r.w) ELSE r

\* except Exception as e: logger.exception(...); return None, for the outcome
\* r of the try
openai_except(r) == IF r.exc THEN Return(PyNone, r.w) ELSE r

\* classificar_com_openai with the credential tested by "is None": an empty
\* key passes.
classificar_com_openai_KeyNone(texto, w) ==
    IF ~w.openai THEN Return(PyNone, w)
    ELSE IF w.api_key = PyNone THEN Return(PyNone, w)
    ELSE openai_except(openai_try(texto, w))

classificar_com_openai(texto, w) ==
    IF ~w.openai THEN Return(PyNone, w)
    ELSE IF ~Truthy(w.api_key) THEN Return(PyNone, w)
    ELSE openai_except(openai_try(texto, w))

-----------------------------------------------------------------------------
(* The orchestrator *)

\* if res: a 2-tuple is true, None is false
classificar_email_from(texto, res) ==
    IF res.exc THEN res
    ELSE IF res.ret.t = "tuple" THEN res
    ELSE classificar_fallback(texto, res.w)

classificar_email(texto, w) ==
    classificar_email_from(texto,
        classificar_com_openai(texto, [w EXCEPT !.emailCalls = @ + 1]))

-----------------------------------------------------------------------------
(* The file checks and the text extractor *)

Txt == <<"t", "x", "t">>

Pdf == <<"p", "d", "f">>

ALLOWED_EXTENSIONS == {Txt, Pdf}

UPLOAD_FOLDER == <<"u", "p", "l", "o", "a", "d", "s">>

\* The position of the last c in s, or 0
LastIndexOf(s, c) ==
    LET at == {i \in 1..Len(s) : s[i] = c}
    IN  IF at = {} THEN 0 ELSE CHOOSE a \in at : \A b \in at : a >= b

\* "." in filename and filename.rsplit(".", 1)[1].lower() in ALLOWED_EXTENSIONS
allowed_file(filename) ==
    /\ LastIndexOf(filename, ".") # 0
    /\ Lower(SubSeq(filename, LastIndexOf(filename, ".") + 1, Len(filename)))
          \in ALLOWED_EXTENSIONS

NameChars ==
    <<"a","b","c","d","e","f","g","h","i","j","k","l","m","n","o","p","q","r","s","t","u","v",
      "w","x","y","z","A","B","C","D","E","F","G","H","I","J","K","L","M","N","O","P","Q","R",
      "S","T","U","V","W","X","Y","Z","0","1","2","3","4","5","6","7","8","9","_",".","-">>

\* "_".join(s.split()): the words of s joined by "_"
RECURSIVE JoinWords(_)
JoinWords(s) ==
    IF s = <<>> THEN <<>>
    ELSE IF IsSpace(Head(s))
    THEN IF LStrip(s) = <<>> THEN <<>> ELSE <<"_">> \o JoinWords(LStrip(s))
    ELSE <<Head(s)>> \o JoinWords(Tail(s))

RECURSIVE StripDots(_)
StripDots(s) ==
    IF s # <<>> /\ Head(s) \in {".", "_"} THEN StripDots(Tail(s))
    ELSE IF s # <<>> /\ s[Len(s)] \in {".", "_"} THEN StripDots(SubSeq(s, 1, Len(s) - 1))
    ELSE s

(* werkzeug's secure_filename on an ASCII name: path separators become      *)
(* spaces, the words are joined by "_", every character other than          *)
(* A-Z a-z 0-9 _ . - is dropped, and leading and trailing "." and "_" are   *)
(* stripped.                                                                *)
secure_filename(filename) ==
    StripDots(SelectSeq(JoinWords(LStrip(Replace(filename, "/", " "))),
                        LAMBDA c : \E i \in 1..Len(NameChars) : NameChars[i] = c))

\* os.path.join(app.config["UPLOAD_FOLDER"], filename)
path_join(folder, filename) == folder \o <<"/">> \o filename

\* os.path.splitext(caminho)[1]: from the last "." of the last component,
\* unless only dots precede it there
splitext(caminho) ==
    LET base == SubSeq(caminho, LastIndexOf(caminho, "/") + 1, Len(caminho))
        dot  == LastIndexOf(base, ".")
    IN  IF dot = 0 \/ \A i \in 1..(dot - 1) : base[i] = "." THEN <<>>
        ELSE SubSeq(base, dot, Len(base))

\* arquivo.save(caminho): the file at caminho is replaced by the upload
FileStorage_save(caminho, content, w) ==
    IF w.io = "save_fails" THEN Raise(w)
    ELSE Return(PyNone,
                [w EXCEPT !.uploads = [p \in DOMAIN @ \cup {caminho} |->
                                          IF p = caminho THEN content ELSE @[p]]])

\* The body of the outer try of ler_arquivo
ler_arquivo_try(caminho, w) ==
    LET extensao == Lower(splitext(caminho))
    IN  IF extensao = <<".">> \o Txt
        THEN IF w.io = "read_fails" \/ caminho \notin DOMAIN w.uploads
             THEN Raise(w)
             ELSE Return(PyStr(w.uploads[caminho]), w)
        ELSE IF extensao = <<".">> \o Pdf /\ w.pdf_extract_text
        THEN IF w.pdfRaises \/ w.io = "read_fails" \/ caminho \notin DOMAIN w.uploads
             THEN Return(PyStr(<<>>), w)
             ELSE Return(PyStr(w.uploads[caminho]), w)
        ELSE Return(PyStr(<<>>), w)

\* except Exception as e: logger.exception(...); return "", for the outcome
\* r of the try
ler_arquivo_except(r) == IF r.exc THEN Return(PyStr(<<>>), r.w) ELSE r

ler_arquivo(caminho, w) == ler_arquivo_except(ler_arquivo_try(caminho, w))

-----------------------------------------------------------------------------
(* The request handler *)

\* What the handler renders: the result shown and the messages flashed
Response(resultado, flashes) == [resultado |-> resultado, flash |-> flashes]

\* categoria, resposta = classificar_email(email_texto), of outcome r;
\* resultado = {"texto": ..., "categoria": ..., "resposta": ...}
index_result(email_texto, r) ==
    IF r.exc THEN r
    ELSE Return(Response([texto |-> email_texto, categoria |-> r.ret.cat,
                          resposta |-> r.ret.reply], <<>>), r.w)

\* The handler without its test of an empty text.
index_classify_NoEmptyCheck(email_texto, w) ==
    index_result(email_texto, classificar_email(PyStr(email_texto), w))

\* if not email_texto: flash(...); return ...  and the classification after it
index_classify(email_texto, w) ==
    IF email_texto = <<>>
    THEN Return(Response(PyNone, <<"warning">>), w)
    ELSE index_result(email_texto, classificar_email(PyStr(email_texto), w))

\* email_texto = ler_arquivo(caminho), of outcome l, and the rest of the handler
index_read(l) ==
    IF l.exc THEN Return(Response(PyNone, <<"danger">>), l.w)
    ELSE index_classify(l.ret.s, [l.w EXCEPT !.extracted = l.ret])

\* arquivo.save(caminho), of outcome s, in the try;
\* except Exception as e: flash(...); return ...
index_saved(caminho, s) ==
    IF s.exc THEN Return(Response(PyNone, <<"danger">>), s.w)
    ELSE index_read(ler_arquivo(caminho, s.w))

\* filename = secure_filename(arquivo.filename); caminho = os.path.join(...)
index_upload(request, w) ==
    index_saved(path_join(UPLOAD_FOLDER, secure_filename(request.filename)),
                FileStorage_save(path_join(UPLOAD_FOLDER, secure_filename(request.filename)),
                                 request.content, w))

index(request, w) ==
    IF request.method # "POST" THEN Return(Response(PyNone, <<>>), w)
    ELSE IF Strip(OrEmpty(request.email_text)) = <<>>
            /\ request.has_file /\ request.filename # <<>>
    THEN IF ~allowed_file(request.filename)
         THEN Return(Response(PyNone, <<"danger">>), w)
         ELSE index_upload(request, w)
    ELSE index_classify(Strip(OrEmpty(request.email_text)), w)

-----------------------------------------------------------------------------
(* The state of the program and of its environment *)

VARIABLES
    openai,             \* whether the import of openai succeeded
    api_key,            \* the environment's OPENAI_API_KEY: None, "" or a key
    pdf_extract_text,   \* whether the import of pdfminer succeeded
    logFile,            \* the content of classificador.log
    uploads,            \* the files of the uploads folder: path -> content
    calls,              \* the calls made so far; datetime.now() reads it
    last,               \* the last call: its inputs, what it returned and did
    pc,                 \* where each concurrent request is in the handler
    req,                \* what each concurrent request was sent with
    loc,                \* the local variables of each concurrent request
    written             \* the entries written to the audit file, in order

vars ==
    <<openai, api_key, pdf_extract_text, logFile, uploads, calls, last,
      pc, req, loc, written>>

\* How many requests are handled concurrently.
NumReq == 2

Reqs == 1..NumReq

\* How many calls one behaviour makes.
MaxCalls == 1

-----------------------------------------------------------------------------
(* The inputs the calls are made with *)

TxtEmpty ==
    <<>>

TxtBlank ==
    <<" ","\n">>

TxtAjuda ==
    <<"P","r","e","c","i","s","o"," ","d","e"," ","a","j","u","d","a"," ","c","o","m"," ","u",
      "m"," ","e","r","r","o"," ","u","r","g","e","n","t","e"," ","n","o"," ","s","i","s","t",
      "e","m","a">>

TxtBoth ==
    <<"M","u","i","t","o"," ","o","b","r","i","g","a","d","o"," ","p","e","l","a"," ","a","j",
      "u","d","a",","," ","f","e","l","i","z"," ","n","a","t","a","l","!">>

TxtCortesia ==
    <<"M","u","i","t","o"," ","O","B","R","I","G","A","D","O","!","\n","F","e","l","i","z",
      " ","N","a","t","a","l">>

TxtUpper ==
    <<"U","R","G","E","N","T","E",":"," ","R","e","u","n","i","ã","o">>

TxtNeutro ==
    <<"O","i",","," ","t","u","d","o"," ","b","e","m","?">>

\* A text longer than a snippet: a newline is its 200th character and its
\* only keyword comes after it.
TxtLong ==
    [i \in 1..(SnippetLen - 1) |-> "x"] \o <<"\n", "e", "r", "r", "o">>

Texts ==
    {TxtEmpty, TxtBlank, TxtAjuda, TxtBoth, TxtCortesia, TxtUpper, TxtNeutro, TxtLong}

\* the response text {"category": "Improdutivo", "reply": "Ok"}
RespJson ==
    <<"{","\"","c","a","t","e","g","o","r","y","\"",":"," ","\"","I","m","p","r","o","d","u",
      "t","i","v","o","\"",","," ","\"","r","e","p","l","y","\"",":"," ","\"","O","k","\"",
      "}">>

\* the response text Claro! {"category": "Produtivo", "reply": "Oi {nome}"} fim
RespWrapped ==
    <<"C","l","a","r","o","!"," ","{","\"","c","a","t","e","g","o","r","y","\"",":"," ","\"",
      "P","r","o","d","u","t","i","v","o","\"",","," ","\"","r","e","p","l","y","\"",":"," ",
      "\"","O","i"," ","{","n","o","m","e","}","\"","}"," ","f","i","m">>

\* the response text {"reply": "Ok"}
RespNoCategory ==
    <<"{","\"","r","e","p","l","y","\"",":"," ","\"","O","k","\"","}">>

\* the response text {"category": "Produtivo"}
RespNoReply ==
    <<"{","\"","c","a","t","e","g","o","r","y","\"",":"," ","\"","P","r","o","d","u","t","i",
      "v","o","\"","}">>

\* the response text {"category": "Spam", "reply": "x"}
RespSpam ==
    <<"{","\"","c","a","t","e","g","o","r","y","\"",":"," ","\"","S","p","a","m","\"",","," ",
      "\"","r","e","p","l","y","\"",":"," ","\"","x","\"","}">>

\* the response text {"category": null, "reply": null}
RespNull ==
    <<"{","\"","c","a","t","e","g","o","r","y","\"",":"," ","n","u","l","l",","," ","\"","r",
      "e","p","l","y","\"",":"," ","n","u","l","l","}">>

\* the response text {"category": "A\nB", "reply": "r"}
RespNewline ==
    <<"{","\"","c","a","t","e","g","o","r","y","\"",":"," ","\"","A","\\","n","B","\"",",",
      " ","\"","r","e","p","l","y","\"",":"," ","\"","r","\"","}">>

\* the response text Produtivo. Obrigado!
RespPlain ==
    <<"P","r","o","d","u","t","i","v","o","."," ","O","b","r","i","g","a","d","o","!">>

\* the response text 
RespEmpty ==
    <<>>

\* the response text {ops}
RespBadSpan ==
    <<"{","o","p","s","}">>

\* the response text {"category": "Improdutivo", "reply": "a"} e {"x"}
RespTwoSpans ==
    <<"{","\"","c","a","t","e","g","o","r","y","\"",":"," ","\"","I","m","p","r","o","d","u",
      "t","i","v","o","\"",","," ","\"","r","e","p","l","y","\"",":"," ","\"","a","\"","}",
      " ","e"," ","{","\"","x","\"","}">>

\* the response text } {
RespNoSpan ==
    <<"}"," ","{">>

\* the response text {}
RespEmptyObject ==
    <<"{","}">>

Responses ==
    {RespJson, RespWrapped, RespNoCategory, RespNoReply, RespSpam, RespNull, RespNewline,
     RespPlain, RespEmpty, RespBadSpan, RespTwoSpans, RespNoSpan, RespEmptyObject}

\* What the remote call does: it raises (network, auth, quota), or it answers
\* with a content that is None or a text.
RemoteOutcomes ==
    {[kind |-> "raise", content |-> PyNone], [kind |-> "resp", content |-> PyNone]}
        \cup {[kind |-> "resp", content |-> PyStr(c)] : c \in Responses}

\* The remote outcome of a call that cannot reach the remote service.
NoRemote == [kind |-> "unused", content |-> PyNone]

ApiKeys == {PyNone, PyStr(<<>>), PyStr(<<"s", "k">>)}

Configured == openai /\ Truthy(api_key)

NameTxt ==
    <<"a",".","t","x","t">>

NameUpper ==
    <<"B",".","T","X","T">>

NamePdf ==
    <<"d","o","c",".","p","d","f">>

NameExe ==
    <<"x",".","e","x","e">>

NameNoExt ==
    <<"n","o","e","x","t">>

NameDotTxt ==
    <<".","t","x","t">>

NamePath ==
    <<".",".","/","a",".","t","x","t">>

Request(method, email_text, has_file, filename, content) ==
    [method |-> method, email_text |-> email_text, has_file |-> has_file,
     filename |-> filename, content |-> content]

NoRequest == Request("", PyNone, FALSE, <<>>, <<>>)

\* The forms whose text is empty after stripping: no field, or blanks only.
EmptyForms == {PyNone, PyStr(<<" ", "\n">>)}

Requests ==
    {Request("GET", PyNone, FALSE, <<>>, <<>>),
     Request("POST", PyStr(<<" ", "e", "r", "r", "o", "\n">>), FALSE, <<>>, <<>>),
     Request("POST", PyStr(<<"o", "i">>), TRUE, NameTxt, TxtAjuda),
     Request("POST", PyStr(<<" ", "\n">>), TRUE, NameExe, TxtAjuda),
     Request("POST", PyNone, TRUE, NameTxt, TxtBlank)}
        \cup {Request("POST", f, FALSE, <<>>, <<>>) : f \in EmptyForms}
        \cup {Request("POST", PyNone, TRUE, n, TxtAjuda) : n \in {<<>>, NameExe, NameNoExt}}
        \cup {Request("POST", PyNone, TRUE, n, c) :
                 n \in {NameTxt, NameUpper, NamePdf, NameDotTxt, NamePath},
                 c \in {<<>>, TxtAjuda}}

\* The remote outcomes the requests to index are tried with.
IndexRemoteOutcomes ==
    {[kind |-> "raise", content |-> PyNone]}
        \cup {[kind |-> "resp", content |-> PyStr(c)] : c \in {RespJson, RespNoReply}}

\* An audit file with one entry of an earlier run.
OldLog == FormatEntry(IsoFormat(0), PyStr(Produtivo), <<"o", "i">>)

-----------------------------------------------------------------------------
(* The calls *)

\* The world a call runs in.
World(remote, writable, io, pdfRaises) ==
    [log |-> logFile, uploads |-> uploads, writable |-> writable, io |-> io,
     pdfRaises |-> pdfRaises, remote |-> remote, ts |-> IsoFormat(calls + 1),
     openai |-> openai, api_key |-> api_key, pdf_extract_text |-> pdf_extract_text,
     warnings |-> 0, logCalls |-> 0, remoteCalls |-> 0, emailCalls |-> 0,
     extracted |-> PyNone]

Unset == [t |-> "unset"]

\* The record of a call: r is its outcome from world w0, a the outcome of the
\* adapter within it.
Called(op, texto, request, w0, a, r) ==
    [op |-> op, texto |-> texto, request |-> request, remote |-> w0.remote,
     writable |-> w0.writable, io |-> w0.io, pdfRaises |-> w0.pdfRaises,
     before |-> w0.log, ts |-> w0.ts, exc |-> r.exc, ret |-> r.ret,
     adapter |-> IF a = Unset THEN Unset ELSE [exc |-> a.exc, ret |-> a.ret, log |-> a.w.log,
                                               logCalls |-> a.w.logCalls],
     warnings |-> r.w.warnings, logCalls |-> r.w.logCalls,
     remoteCalls |-> r.w.remoteCalls, emailCalls |-> r.w.emailCalls,
     extracted |-> r.w.extracted]

NoCall ==
    [op |-> "none", texto |-> PyNone, request |-> NoRequest, remote |-> NoRemote,
     writable |-> TRUE, io |-> "ok", pdfRaises |-> FALSE, before |-> <<>>, ts |-> <<>>,
     exc |-> FALSE, ret |-> PyNone, adapter |-> Unset, warnings |-> 0, logCalls |-> 0,
     remoteCalls |-> 0, emailCalls |-> 0, extracted |-> PyNone]

\* A concurrent request not yet received: what it is sent with, its locals.
NoSent == [request |-> NoRequest, remote |-> NoRemote, writable |-> TRUE]

NoLocals == [caminho |-> <<>>, email_texto |-> <<>>, pending |-> <<>>, response |-> Unset]

Init ==
    /\ openai \in BOOLEAN
    /\ api_key \in ApiKeys
    /\ pdf_extract_text \in BOOLEAN
    /\ logFile \in {<<>>, OldLog}
    /\ uploads = <<>>
    /\ calls = 0
    /\ last = NoCall
    /\ pc = [p \in Reqs |-> "idle"]
    /\ req = [p \in Reqs |-> NoSent]
    /\ loc = [p \in Reqs |-> NoLocals]
    /\ written = <<>>

\* A call with outcome r from world w0 leaves the program in the world r.w.
Finish(op, texto, request, w0, a, r) ==
    /\ logFile' = r.w.log
    /\ uploads' = r.w.uploads
    /\ calls' = calls + 1
    /\ last' = Called(op, texto, request, w0, a, r)
    /\ UNCHANGED <<openai, api_key, pdf_extract_text, pc, req, loc, written>>

\* classificar_fallback(texto)
CallFallback ==
    /\ calls < MaxCalls
    /\ \E texto \in Texts, writable \in BOOLEAN :
          Finish("classificar_fallback", PyStr(texto), NoRequest,
                 World(NoRemote, writable, "ok", FALSE), Unset,
                 classificar_fallback(PyStr(texto), World(NoRemote, writable, "ok", FALSE)))

\* classificar_email(texto)
CallEmail ==
    /\ calls < MaxCalls
    /\ \E texto \in Texts, writable \in BOOLEAN,
          remote \in (IF Configured THEN RemoteOutcomes ELSE {NoRemote}) :
          Finish("classificar_email", PyStr(texto), NoRequest,
                 World(remote, writable, "ok", FALSE),
                 classificar_com_openai(PyStr(texto), World(remote, writable, "ok", FALSE)),
                 classificar_email(PyStr(texto), World(remote, writable, "ok", FALSE)))

\* Whether the request reaches the classification, in a world whose file
\* operations go as io and pdfRaises say.
Classifies(request, io, pdfRaises) ==
    index(request, World(NoRemote, TRUE, io, pdfRaises)).w.emailCalls > 0

\* The outcomes that matter to a request: of the file operations when it
\* uploads a file, of the remote call and of the audit write when it
\* classifies.
IoOutcomes(request) ==
    IF request.has_file /\ request.filename # <<>> /\ request.content # <<>>
    THEN {"ok", "save_fails", "read_fails"} ELSE {"ok"}

PdfOutcomes(request) ==
    IF request.filename = NamePdf /\ request.content # <<>> THEN BOOLEAN ELSE {FALSE}

WriteOutcomes(classifies) == IF classifies THEN BOOLEAN ELSE {TRUE}

RemoteOutcomesOf(classifies) ==
    IF classifies /\ Configured THEN IndexRemoteOutcomes ELSE {NoRemote}

\* A request to index
CallIndex ==
    /\ calls < MaxCalls
    /\ \E request \in Requests :
       \E io \in IoOutcomes(request), pdfRaises \in PdfOutcomes(request) :
       \E writable \in WriteOutcomes(Classifies(request, io, pdfRaises)),
          remote \in RemoteOutcomesOf(Classifies(request, io, pdfRaises)) :
          Finish("index", PyNone, request, World(remote, writable, io, pdfRaises), Unset,
                 index(request, World(remote, writable, io, pdfRaises)))

Next == CallFallback \/ CallEmail \/ CallIndex

Spec == Init /\ [][Next]_vars

-----------------------------------------------------------------------------
(* Concurrent requests.  Each request runs index, one step per access to    *)
(* what the requests share: the uploads folder and the audit file.          *)

\* The file request p uploads: each request's content is its own.
ConcContent(p) == <<"e", "r", "r", "o", " ">> \o [i \in 1..p |-> ToString(p)]

ConcNames == {NameTxt, NamePath, NameUpper, NameExe}

ConcRemoteOutcomes ==
    {[kind |-> "raise", content |-> PyNone]}
        \cup {[kind |-> "resp", content |-> PyStr(c)] : c \in {RespJson, RespNewline}}

InitConc ==
    /\ openai = TRUE
    /\ api_key \in {PyNone, PyStr(<<"s", "k">>)}
    /\ pdf_extract_text = FALSE
    /\ logFile \in {<<>>, OldLog}
    /\ uploads = <<>>
    /\ calls = 0
    /\ last = NoCall
    /\ pc = [p \in Reqs |-> "idle"]
    /\ req = [p \in Reqs |-> NoSent]
    /\ loc = [p \in Reqs |-> NoLocals]
    /\ written = IF logFile = <<>> THEN <<>> ELSE <<[req |-> 0, entry |-> logFile]>>

\* The file at path after content is written at its start: open(dst, "wb")
\* writes from offset 0 over what the file holds.
WriteAtStart(files, path, content) ==
    [p \in DOMAIN files \cup {path} |->
        IF p # path THEN files[p]
        ELSE IF path \in DOMAIN files
        THEN content \o SubSeq(files[path], Len(content) + 1, Len(files[path]))
        ELSE content]

\* The file at path created or truncated: the open of open(dst, "wb")
Truncate(files, path) ==
    [p \in DOMAIN files \cup {path} |-> IF p = path THEN <<>> ELSE files[p]]

\* The world request p runs in, with nothing yet written to the audit file
\* by it.
ConcWorld(p) ==
    [World(req[p].remote, req[p].writable, "ok", FALSE) EXCEPT !.log = <<>>]

\* The request arrives: the form has no text and a file is uploaded; the
\* extension is checked and the path is made.
Receive(p) ==
    /\ pc[p] = "idle"
    /\ \E n \in ConcNames :
       \E writable \in WriteOutcomes(allowed_file(n)),
          remote \in (IF allowed_file(n) /\ Configured THEN ConcRemoteOutcomes ELSE {NoRemote}) :
          /\ req' = [req EXCEPT ![p] =
                        [request |-> Request("POST", PyNone, TRUE, n, ConcContent(p)),
                         remote |-> remote, writable |-> writable]]
          /\ IF allowed_file(n)
             THEN /\ pc' = [pc EXCEPT ![p] = "save"]
                  /\ loc' = [loc EXCEPT ![p].caminho =
                                path_join(UPLOAD_FOLDER, secure_filename(n))]
             ELSE /\ pc' = [pc EXCEPT ![p] = "done"]
                  /\ loc' = [loc EXCEPT ![p].response = Response(PyNone, <<"danger">>)]
    /\ UNCHANGED <<openai, api_key, pdf_extract_text, logFile, uploads, calls, last, written>>

\* arquivo.save(caminho) opens the file for writing, which empties it ...
SaveOpen(p) ==
    /\ pc[p] = "save"
    /\ uploads' = Truncate(uploads, loc[p].caminho)
    /\ pc' = [pc EXCEPT ![p] = "write"]
    /\ UNCHANGED <<openai, api_key, pdf_extract_text, logFile, calls, last, req, loc, written>>

\* ... and copies the upload into it.
SaveWrite(p) ==
    /\ pc[p] = "write"
    /\ uploads' = WriteAtStart(uploads, loc[p].caminho, req[p].request.content)
    /\ pc' = [pc EXCEPT ![p] = "read"]
    /\ UNCHANGED <<openai, api_key, pdf_extract_text, logFile, calls, last, req, loc, written>>

\* email_texto = ler_arquivo(caminho)
Read(p) ==
    /\ pc[p] = "read"
    /\ loc' = [loc EXCEPT ![p].email_texto =
                  ler_arquivo(loc[p].caminho, ConcWorld(p)).ret.s]
    /\ pc' = [pc EXCEPT ![p] = "classify"]
    /\ UNCHANGED <<openai, api_key, pdf_extract_text, logFile, uploads, calls, last, req, written>>

\* The rest of the handler of request p, with outcome r: the response is
\* made, and the entry registrar_log formatted is still to reach the file.
Classified(p, r) ==
    /\ loc' = [loc EXCEPT ![p].response = r.ret, ![p].pending = r.w.log]
    /\ pc' = [pc EXCEPT ![p] = IF r.w.log # <<>> THEN "append" ELSE "done"]
    /\ calls' = calls + r.w.emailCalls

Classify(p) ==
    /\ pc[p] = "classify"
    /\ Classified(p, index_classify(loc[p].email_texto, ConcWorld(p)))
    /\ UNCHANGED <<openai, api_key, pdf_extract_text, logFile, uploads, last, req, written>>

\* The write of registrar_log: the file is open in append mode and the entry
\* is one write at the end of the file.
AppendEntry(p) ==
    /\ pc[p] = "append"
    /\ logFile' = logFile \o loc[p].pending
    /\ written' = Append(written, [req |-> p, entry |-> loc[p].pending])
    /\ pc' = [pc EXCEPT ![p] = "done"]
    /\ UNCHANGED <<openai, api_key, pdf_extract_text, uploads, calls, last, req, loc>>

NextConc ==
    \E p \in Reqs :
        \/ Receive(p)
        \/ SaveOpen(p)
        \/ SaveWrite(p)
        \/ Read(p)
        \/ Classify(p)
        \/ AppendEntry(p)

SpecConc == InitConc /\ [][NextConc]_vars

-----------------------------------------------------------------------------
(* What the claims are stated with: the audit file as a reader sees it, and *)
(* the reference decisions the results are compared with.                   *)

\* The complete lines of a text, without their newlines.
RECURSIVE SplitLines(_)
SplitLines(text) ==
    IF \A i \in 1..Len(text) : text[i] # "\n" THEN <<>>
    ELSE LET nl == CHOOSE i \in 1..Len(text) :
                       text[i] = "\n" /\ \A j \in 1..(i - 1) : text[j] # "\n"
         IN  <<SubSeq(text, 1, nl - 1)>> \o SplitLines(SubSeq(text, nl + 1, Len(text)))

\* The first position from `from` where " | " starts in line, or 0.
FirstSep(line, from) ==
    LET at == {i \in from..(Len(line) - 2) : SubSeq(line, i, i + 2) = <<" ", "|", " ">>}
    IN  IF at = {} THEN 0 ELSE CHOOSE a \in at : \A b \in at : a <= b

\* The Audit Entry a line holds: <timestamp> | <category> | <snippet>
EntryOfSeps(line, i, j) ==
    IF i = 0 \/ j = 0
    THEN [ok |-> FALSE, ts |-> <<>>, category |-> <<>>, snippet |-> line]
    ELSE [ok |-> TRUE, ts |-> SubSeq(line, 1, i - 1),
          category |-> SubSeq(line, i + 3, j - 1),
          snippet |-> SubSeq(line, j + 3, Len(line))]

EntryOf(line) ==
    EntryOfSeps(line, FirstSep(line, 1),
                IF FirstSep(line, 1) = 0 THEN 0 ELSE FirstSep(line, FirstSep(line, 1) + 3))

\* The Audit Entries of the audit file, one per line.
EntriesOfLines(lines) == [k \in 1..Len(lines) |-> EntryOf(lines[k])]

Entries(log) == EntriesOfLines(SplitLines(log))

\* The snippet of a text: its first 200 characters, newlines as spaces.
RefSnippet(text) ==
    [i \in 1..(IF Len(text) < 200 THEN Len(text) ELSE 200) |->
        IF text[i] = "\n" THEN " " ELSE text[i]]

Categories == {Produtivo, Improdutivo}

\* keyword occurs in text, whatever the case of the text's letters.
OccursIn(keyword, text) ==
    \E k \in 0..(Len(text) - Len(keyword)) :
        \A i \in 1..Len(keyword) : LowerChar(text[k + i]) = keyword[i]

AnyOccursIn(keywords, text) ==
    \E n \in 1..Len(keywords) : OccursIn(keywords[n], text)

\* The reference decision of the keyword classifier.
RefDecision(text) ==
    IF \A i \in 1..Len(text) : IsSpace(text[i])
    THEN PyTuple(PyStr(Improdutivo), PyStr(RespostaVazio))
    ELSE IF AnyOccursIn(palavras_produtivas, text)
    THEN PyTuple(PyStr(Produtivo), PyStr(RespostaProdutivo))
    ELSE IF AnyOccursIn(palavras_improdutivas, text)
    THEN PyTuple(PyStr(Improdutivo), PyStr(RespostaCortesia))
    ELSE PyTuple(PyStr(Improdutivo), PyStr(RespostaPadrao))

NonEmptyStr(v) == v.t = "str" /\ v.s # <<>>

IsEmail == last.op = "classificar_email"

\* The remote call was made and answered with a text.
Answered == IsEmail /\ last.remote.kind = "resp" /\ last.remote.content.t = "str"

\* The world of the last call, had its audit write the outcome `writable`.
LastWorld(writable) ==
    [World(last.remote, writable, last.io, last.pdfRaises) EXCEPT
        !.log = last.before, !.ts = last.ts, !.uploads = <<>>]

-----------------------------------------------------------------------------
(* C1 *)

\* A category as text: a str is itself, None reads "None".
TextOf(v) == IF v.t = "str" THEN v.s ELSE <<"N", "o", "n", "e">>

\* C1: every call of classificar_email appends exactly one Audit Entry to the
\* log, whatever the remote outcome; the entry's category is the category the
\* call returns and its snippet is the first 200 characters of the input with
\* newlines replaced by spaces.  Stated here of the calls whose audit write
\* succeeds: the entries before the call are still there, one entry follows
\* them, and it holds the returned category, as text, and the snippet.
C1_OneEntryPerCall ==
    IsEmail /\ last.writable =>
        /\ ~last.exc
        /\ Len(Entries(logFile)) = Len(Entries(last.before)) + 1
        /\ SubSeq(Entries(logFile), 1, Len(Entries(last.before))) = Entries(last.before)
        /\ Entries(logFile)[Len(Entries(logFile))].ok
        /\ Entries(logFile)[Len(Entries(logFile))].category = TextOf(last.ret.cat)
        /\ Entries(logFile)[Len(Entries(logFile))].snippet = RefSnippet(last.texto.s)

-----------------------------------------------------------------------------
(* C2 *)

\* The remote outcomes that raise in the adapter: the call itself raises, the
\* content is None (re.search raises), or the span found is not JSON.
RaisingOutcomes ==
    {[kind |-> "raise", content |-> PyNone], [kind |-> "resp", content |-> PyNone],
     [kind |-> "resp", content |-> PyStr(RespBadSpan)],
     [kind |-> "resp", content |-> PyStr(RespTwoSpans)]}

\* C2: classificar_email is total: whatever the input, the outcome of the
\* remote call and the outcome of the audit write, it raises nothing and
\* returns a (category, reply) pair; an exception of the remote call or of
\* the parsing of its response becomes "no result" and the keyword fallback
\* result is returned; and the pair returned is the one returned when the
\* audit write succeeds.
C2_Total ==
    IsEmail =>
        /\ ~last.exc
        /\ last.ret.t = "tuple"
        /\ (Configured /\ last.remote \in RaisingOutcomes =>
               /\ ~last.adapter.exc
               /\ last.adapter.ret = PyNone
               /\ last.ret = RefDecision(last.texto.s))
        /\ last.ret = classificar_email(last.texto, LastWorld(TRUE)).ret

\* A call whose remote call raised and whose audit write failed.
C2_Witness ==
    /\ IsEmail
    /\ last.remote.kind = "raise"
    /\ ~last.writable
    /\ last.warnings = 1
    /\ last.ret.t = "tuple"

-----------------------------------------------------------------------------
(* C3 *)

\* C3: with no credential (OPENAI_API_KEY unset or empty) or no remote
\* library, the adapter returns no result for every text without a remote call
\* and without an audit entry, and classificar_email returns exactly what
\* classificar_fallback returns, with the same single audit entry: the audit
\* file is what classificar_fallback alone leaves, after one registrar_log.
C3_NoCredentialIsFallback ==
    IsEmail /\ ~(openai /\ api_key.t = "str" /\ api_key.s # <<>>) =>
        /\ ~last.adapter.exc
        /\ last.adapter.ret = PyNone
        /\ last.adapter.log = last.before
        /\ last.adapter.logCalls = 0
        /\ last.remoteCalls = 0
        /\ ~last.exc
        /\ last.ret = classificar_fallback(last.texto, LastWorld(last.writable)).ret
        /\ last.ret = RefDecision(last.texto.s)
        /\ logFile = classificar_fallback(last.texto, LastWorld(last.writable)).w.log
        /\ last.logCalls = 1
        /\ (last.writable => Len(Entries(logFile)) = Len(Entries(last.before)) + 1)

\* A call with the library present and an empty credential, which wrote its
\* entry.
C3_Witness ==
    /\ IsEmail
    /\ openai
    /\ api_key = PyStr(<<>>)
    /\ last.texto = PyStr(TxtAjuda)
    /\ logFile # last.before

-----------------------------------------------------------------------------
(* C4 *)

\* C4: classificar_fallback returns the reference decision for every text:
\* blank text is Unproductive with the thanks-for-the-message reply; else any
\* productive keyword in the lower-cased text makes it Productive with the
\* acknowledgment reply, courtesy keywords or not; else any courtesy keyword
\* makes it Unproductive with the courtesy reply; else it is Unproductive with
\* the default reply.
C4_FallbackDecision ==
    last.op = "classificar_fallback" =>
        /\ ~last.exc
        /\ last.ret = RefDecision(last.texto.s)

\* A text with a courtesy keyword and a productive one, found Productive.
C4_Witness ==
    /\ last.op = "classificar_fallback"
    /\ last.texto = PyStr(TxtBoth)
    /\ AnyOccursIn(palavras_improdutivas, TxtBoth)
    /\ last.ret.cat = PyStr(Produtivo)

-----------------------------------------------------------------------------
(* C5 *)

\* C5: every category classificar_email returns and every category written to
\* an Audit Entry is Produtivo or Improdutivo, whatever the remote response.
C5_CategoryInEnum ==
    /\ (IsEmail /\ ~last.exc =>
           last.ret.cat.t = "str" /\ last.ret.cat.s \in Categories)
    /\ \A k \in 1..Len(Entries(logFile)) :
           Entries(logFile)[k].ok /\ Entries(logFile)[k].category \in Categories

-----------------------------------------------------------------------------
(* C6 *)

\* name ends with suffix, whatever the case of its letters.
EndsWith(name, suffix) ==
    /\ Len(suffix) <= Len(name)
    /\ \A i \in 1..Len(suffix) :
          LowerChar(name[Len(name) - Len(suffix) + i]) = suffix[i]

\* The request is one of those C6 is about.
C6_Unclassifiable ==
    /\ last.op = "index"
    /\ last.request.method = "POST"
    /\ \A i \in 1..Len(OrEmpty(last.request.email_text)) :
          IsSpace(OrEmpty(last.request.email_text)[i])
    /\ \/ ~last.request.has_file
       \/ last.request.filename = <<>>
       \/ ~(EndsWith(last.request.filename, <<".", "t", "x", "t">>)
              \/ EndsWith(last.request.filename, <<".", "p", "d", "f">>))
       \/ last.io # "ok"
       \/ last.extracted = PyStr(<<>>)

\* C6: a POST to index whose text is empty after stripping and that uploads
\* no file, or a file whose extension is not .txt or .pdf, or whose upload
\* cannot be saved or read, or from which the empty string is extracted,
\* never reaches the orchestrator, leaves the audit log unchanged and gets a
\* warning and no result.
C6_NoClassification ==
    C6_Unclassifiable =>
        /\ ~last.exc
        /\ last.emailCalls = 0
        /\ last.logCalls = 0
        /\ logFile = last.before
        /\ last.ret.resultado = PyNone
        /\ Len(last.ret.flash) = 1

\* An upload named ".txt": allowed, saved as "txt" and so not extracted.
C6_Witness ==
    /\ C6_Unclassifiable
    /\ last.request.filename = NameDotTxt
    /\ last.request.content = TxtAjuda
    /\ last.extracted = PyStr(<<>>)
    /\ last.ret.flash = <<"warning">>

-----------------------------------------------------------------------------
(* C7 *)

ReplylessResponses == {RespEmpty, RespEmptyObject, RespNoReply, RespNull}

-----------------------------------------------------------------------------
(* C8 *)

\* The text has no "{" with a "}" after it.
NoSpan(text) ==
    ~\E i \in 1..Len(text), j \in 1..Len(text) : i < j /\ text[i] = "{" /\ text[j] = "}"

\* What the JSON object of each response holds: its category, or Produtivo
\* when it has none, and its reply.
ObjectOf(text) ==
    CASE text = RespJson -> PyTuple(PyStr(Improdutivo), PyStr(<<"O", "k">>))
      [] text = RespWrapped ->
            PyTuple(PyStr(Produtivo), PyStr(<<"O", "i", " ", "{", "n", "o", "m", "e", "}">>))
      [] text = RespNoCategory -> PyTuple(PyStr(Produtivo), PyStr(<<"O", "k">>))
      [] text = RespNoReply -> PyTuple(PyStr(Produtivo), PyStr(<<>>))
      [] text = RespSpam -> PyTuple(PyStr(<<"S", "p", "a", "m">>), PyStr(<<"x">>))
      [] text = RespNull -> PyTuple(PyNone, PyNone)
      [] text = RespNewline -> PyTuple(PyStr(<<"A", "\n", "B">>), PyStr(<<"r">>))
      [] text = RespEmptyObject -> PyTuple(PyStr(Produtivo), PyStr(<<>>))
      [] OTHER -> PyNone

\* C8: of a response, the adapter returns (Produtivo, the whole text) when the
\* text has no {...} span; the category (Produtivo when absent) and the reply
\* of the JSON object when the greedy span, first "{" to last "}", parses; and
\* no result, with no audit entry of its own, when the span does not parse,
\* classificar_email then returning the keyword fallback result.
C8_ResponseParsing ==
    Configured /\ Answered =>
        /\ ~last.adapter.exc
        /\ IF NoSpan(last.remote.content.s)
           THEN last.adapter.ret = PyTuple(PyStr(Produtivo), last.remote.content)
           ELSE last.adapter.ret = ObjectOf(last.remote.content.s)
        /\ (last.adapter.ret # PyNone => last.ret = last.adapter.ret)
        /\ (last.adapter.ret = PyNone =>
               /\ last.adapter.log = last.before
               /\ last.adapter.logCalls = 0
               /\ last.ret = RefDecision(last.texto.s))

\* Two objects in one response: the greedy span holds both and does not
\* parse, and the fallback result is returned.
C8_Witness ==
    /\ Configured
    /\ Answered
    /\ last.remote.content.s = RespTwoSpans
    /\ last.adapter.ret = PyNone
    /\ last.ret.t = "tuple"

-----------------------------------------------------------------------------
(* C9 *)

RECURSIVE Concat(_)
Concat(entries) ==
    IF entries = <<>> THEN <<>> ELSE Head(entries).entry \o Concat(Tail(entries))

\* One complete line: a newline ends it and it holds no other.
OneLine(text) ==
    /\ text # <<>>
    /\ text[Len(text)] = "\n"
    /\ \A i \in 1..(Len(text) - 1) : text[i] # "\n"

\* C9: under any interleaving of concurrent requests the audit log is
\* append-only and line-atomic: it is the entries written, whole and in the
\* order they were appended, and each entry written by registrar_log is one
\* complete line.
C9_LineAtomic ==
    /\ logFile = Concat(written)
    /\ \A k \in 1..Len(written) : written[k].req # 0 => OneLine(written[k].entry)

-----------------------------------------------------------------------------
(* C10 *)

\* C10: under any interleaving of concurrent uploads, the text a request
\* classifies and shows in its result is the content of the file it uploaded,
\* also when two requests' files are saved to one path.
C10_OwnFileClassified ==
    \A p \in Reqs :
        /\ pc[p] \in {"classify", "append", "done"} /\ allowed_file(req[p].request.filename)
              => loc[p].email_texto = req[p].request.content
        /\ pc[p] = "done" /\ loc[p].response # Unset /\ loc[p].response.resultado # PyNone
              => loc[p].response.resultado.texto = req[p].request.content

====
